---- MODULE Spec2Model ----
(***************************************************************************)
(* A model of the Drain log-template miner (src/drain.go).                 *)
(*                                                                         *)
(* Strings are sequences of one-character strings, so that tokenizing,     *)
(* strconv.Itoa and the digit test are computed and not assumed.  The      *)
(* prefix tree is a function from a node's path (the sequence of edge keys *)
(* from the root) to the node's clusterIDs; the node's keyToChildNode map  *)
(* is the set of one-key extensions of its path.  LogCluster objects live  *)
(* in a heap indexed by their id (the cache and the callers hold pointers  *)
(* to them); the LRU cache is the sequence of its keys, oldest first.      *)
(***************************************************************************)
EXTENDS Integers, Sequences, FiniteSets, TLC

\* ------------------------------------------------------------------ bounds

\* At most this many Train calls in a behaviour.
MaxTrains == 3

\* At most this many Match calls in a behaviour.
MaxMatches == 1

\* ----------------------------------------------------------------- strings

\* The nil *LogCluster.
Nil == 0

\* A nil *Node (a path no node has: its key is not a sequence of characters).
NilNode == << <<"nil">> >>

Space == " "

\* unicode.IsSpace, on the characters the inputs use.
IsSpace(c) == c \in {" ", "\t", "\n", "\r"}

\* unicode.IsNumber, on the characters the inputs use.
IsNumber(c) == c \in {"0", "1", "2", "3", "4", "5", "6", "7", "8", "9"}

RECURSIVE TrimLeft(_)
TrimLeft(s) ==
    IF s # <<>> /\ IsSpace(Head(s)) THEN TrimLeft(Tail(s)) ELSE s

RECURSIVE TrimRight(_)
TrimRight(s) ==
    IF s # <<>> /\ IsSpace(s[Len(s)]) THEN TrimRight(SubSeq(s, 1, Len(s) - 1)) ELSE s

\* strings.TrimSpace
TrimSpace(s) == TrimRight(TrimLeft(s))

\* strings.Replace(s, old, " ", -1): every non-overlapping occurrence of old,
\* left to right; an empty old matches before every character and at the end.
RECURSIVE ReplaceEmpty(_)
ReplaceEmpty(s) ==
    IF s = <<>> THEN <<Space>> ELSE <<Space, Head(s)>> \o ReplaceEmpty(Tail(s))

RECURSIVE ReplaceWithSpace(_, _)
ReplaceWithSpace(s, old) ==
    IF old = <<>> THEN ReplaceEmpty(s)
    ELSE IF Len(s) < Len(old) THEN s
    ELSE IF SubSeq(s, 1, Len(old)) = old
         THEN <<Space>> \o ReplaceWithSpace(SubSeq(s, Len(old) + 1, Len(s)), old)
         ELSE <<Head(s)>> \o ReplaceWithSpace(Tail(s), old)

\* the loop over config.ExtraDelimiters
RECURSIVE ReplaceDelimiters(_, _)
ReplaceDelimiters(s, delimiters) ==
    IF delimiters = <<>> THEN s
    ELSE ReplaceDelimiters(ReplaceWithSpace(s, Head(delimiters)), Tail(delimiters))

\* strings.Split(s, " "): one more token than there are spaces; tokens may be empty.
RECURSIVE SplitOnSpace(_, _)
SplitOnSpace(s, cur) ==
    IF s = <<>> THEN <<cur>>
    ELSE IF Head(s) = Space THEN <<cur>> \o SplitOnSpace(Tail(s), <<>>)
    ELSE SplitOnSpace(Tail(s), Append(cur, Head(s)))

\* Drain.getContentAsTokens
getContentAsTokens(config, content) ==
    SplitOnSpace(ReplaceDelimiters(TrimSpace(content), config.ExtraDelimiters), <<>>)

DigitChars == <<"0", "1", "2", "3", "4", "5", "6", "7", "8", "9">>

\* strconv.Itoa, for n >= 0
RECURSIVE Itoa(_)
Itoa(n) ==
    IF n < 10 THEN <<DigitChars[n + 1]>>
    ELSE Itoa(n \div 10) \o <<DigitChars[(n % 10) + 1]>>

\* Drain.hasNumbers
hasNumbers(s) == \E i \in 1..Len(s) : IsNumber(s[i])

\* --------------------------------------------------------- the cluster cache

\* math.MaxInt (drain.go:38) as the 32-bit builds have it; no run fills it.
MathMaxInt == 2147483647

\* createLogClusterCache with simplelru.NewLRU: an empty cache of the given
\* capacity, 0 standing for math.MaxInt.  keys are kept oldest first.
createLogClusterCache(maxSize) ==
    [size |-> IF maxSize = 0 THEN MathMaxInt ELSE maxSize, keys |-> <<>>]

Contains(cache, key) == \E i \in 1..Len(cache.keys) : cache.keys[i] = key

Without(keys, key) == SelectSeq(keys, LAMBDA k : k # key)

\* Set with the eviction test off by one: the cache grows to size + 1.
SetOffByOne(cache, key) ==
    IF Contains(cache, key)
    THEN [cache EXCEPT !.keys = Append(Without(cache.keys, key), key)]
    ELSE LET added == Append(cache.keys, key)
         IN  [cache EXCEPT !.keys = IF Len(added) - 1 > cache.size THEN Tail(added)
                                    ELSE added]

\* LogClusterCache.Set (simplelru Add): a present key moves to the newest end;
\* a new key is added there and, over capacity, the oldest key is removed.
Set(cache, key) ==
    IF Contains(cache, key)
    THEN [cache EXCEPT !.keys = Append(Without(cache.keys, key), key)]
    ELSE LET added == Append(cache.keys, key)
         IN  [cache EXCEPT !.keys = IF Len(added) > cache.size THEN Tail(added) ELSE added]

\* Get that loads a missing key back into the cache instead of missing.
GetOrLoad(cache, key) ==
    [cache |-> [cache EXCEPT !.keys = Append(Without(cache.keys, key), key)],
     cluster |-> key]

\* LogClusterCache.Get (simplelru Get): a hit returns the cluster and moves its
\* key to the newest end; a miss returns nil.
Get(cache, key) ==
    IF Contains(cache, key)
    THEN [cache |-> [cache EXCEPT !.keys = Append(Without(cache.keys, key), key)],
          cluster |-> key]
    ELSE [cache |-> cache, cluster |-> Nil]

\* LogClusterCache.Values (simplelru Keys and Peek): the live clusters, oldest
\* first, recency untouched.
Values(cache) == cache.keys

\* ------------------------------------------------------------- similarity

\* float64 similarities are quotients of small integers; they are compared
\* as fractions with positive denominators.
Frac(n, m) == [num |-> n, den |-> m]

FracGt(a, b) == a.num * b.den > b.num * a.den

FracEq(a, b) == a.num * b.den = b.num * a.den

FracGe(a, b) == a.num * b.den >= b.num * a.den

\* Drain.getSeqDistance
getSeqDistance(config, seq1, seq2, includeParams) ==
    IF Len(seq1) # Len(seq2)
    THEN [panic |-> TRUE, retVal |-> Frac(0, 1), paramCount |-> 0]
    ELSE LET paramCount ==
                 Cardinality({i \in 1..Len(seq1) : seq1[i] = config.ParamString})
             simTokens ==
                 Cardinality({i \in 1..Len(seq1) :
                                 seq1[i] # config.ParamString /\ seq1[i] = seq2[i]})
         IN  [panic |-> FALSE,
              retVal |-> Frac(IF includeParams THEN simTokens + paramCount ELSE simTokens,
                              Len(seq1)),
              paramCount |-> paramCount]

\* createTemplate that keeps only the tokens the two sequences share.
createTemplateCommon(config, seq1, seq2) ==
    IF Len(seq1) # Len(seq2)
    THEN [panic |-> TRUE, retVal |-> <<>>]
    ELSE [panic |-> FALSE,
          retVal |-> SelectSeq([i \in 1..Len(seq2) |->
                                   IF seq1[i] # seq2[i] THEN <<"#">> ELSE seq2[i]],
                               LAMBDA t : t # <<"#">>)]

\* createTemplate that takes the line's token where the two sequences differ.
createTemplateLatest(config, seq1, seq2) ==
    IF Len(seq1) # Len(seq2)
    THEN [panic |-> TRUE, retVal |-> <<>>]
    ELSE [panic |-> FALSE,
          retVal |-> [i \in 1..Len(seq2) |->
                         IF seq1[i] # seq2[i] THEN seq1[i] ELSE seq2[i]]]

\* Drain.createTemplate
createTemplate(config, seq1, seq2) ==
    IF Len(seq1) # Len(seq2)
    THEN [panic |-> TRUE, retVal |-> <<>>]
    ELSE [panic |-> FALSE,
          retVal |-> [i \in 1..Len(seq2) |->
                         IF seq1[i] # seq2[i] THEN config.ParamString ELSE seq2[i]]]

\* ------------------------------------------------------------ the tree

\* createNode, as the root of a new tree
createNode == (<<>> :> <<>>)

\* keyToChildNode of the node at path node
keyToChildNode(rootNode, node) ==
    {p[Len(p)] : p \in {q \in DOMAIN rootNode :
                           Len(q) = Len(node) + 1 /\ SubSeq(q, 1, Len(node)) = node}}

\* keyToChildNode[key] of the node at path node
Child(node, key) == Append(node, key)

\* fastMatchLoop that compares similarities only, whatever the wildcard counts.
RECURSIVE fastMatchLoopBySimilarity(_, _, _, _, _, _)
fastMatchLoopBySimilarity(d, clusterIDs, tokens, includeParams, i, acc) ==
    IF i > Len(clusterIDs) THEN acc
    ELSE LET got == Get(acc.cache, clusterIDs[i])
         IN  IF got.cluster = Nil
             THEN fastMatchLoopBySimilarity(d, clusterIDs, tokens, includeParams,
                                            i + 1, acc)
             ELSE LET dist == getSeqDistance(d.config,
                                             d.heap[got.cluster].logTemplateTokens,
                                             tokens, includeParams)
                  IN  IF dist.panic
                      THEN [acc EXCEPT !.cache = got.cache, !.panic = TRUE]
                      ELSE fastMatchLoopBySimilarity(
                               d, clusterIDs, tokens, includeParams, i + 1,
                               IF FracGt(dist.retVal, acc.maxSim)
                               THEN [acc EXCEPT !.cache = got.cache,
                                                !.maxSim = dist.retVal,
                                                !.maxParamCount = dist.paramCount,
                                                !.maxCluster = got.cluster]
                               ELSE [acc EXCEPT !.cache = got.cache])

\* Drain.fastMatch, the loop over clusterIDs from index i on
RECURSIVE fastMatchLoop(_, _, _, _, _, _)
fastMatchLoop(d, clusterIDs, tokens, includeParams, i, acc) ==
    IF i > Len(clusterIDs) THEN acc
    ELSE LET got == Get(acc.cache, clusterIDs[i])
         IN  IF got.cluster = Nil
             THEN fastMatchLoop(d, clusterIDs, tokens, includeParams, i + 1, acc)
             ELSE LET dist == getSeqDistance(d.config,
                                             d.heap[got.cluster].logTemplateTokens,
                                             tokens, includeParams)
                      better == \/ FracGt(dist.retVal, acc.maxSim)
                                \/ /\ FracEq(dist.retVal, acc.maxSim)
                                   /\ dist.paramCount > acc.maxParamCount
                  IN  IF dist.panic
                      THEN [acc EXCEPT !.cache = got.cache, !.panic = TRUE]
                      ELSE fastMatchLoop(d, clusterIDs, tokens, includeParams, i + 1,
                               IF better
                               THEN [acc EXCEPT !.cache = got.cache,
                                                !.maxSim = dist.retVal,
                                                !.maxParamCount = dist.paramCount,
                                                !.maxCluster = got.cluster]
                               ELSE [acc EXCEPT !.cache = got.cache])

\* fastMatch that counts the line into the cluster it returns.
fastMatchCounting(d, clusterIDs, tokens, simTh, includeParams) ==
    LET acc == fastMatchLoop(d, clusterIDs, tokens, includeParams, 1,
                   [cache |-> d.idToCluster, maxSim |-> Frac(-1, 1),
                    maxParamCount |-> -1, maxCluster |-> Nil, panic |-> FALSE])
        hit == ~acc.panic /\ FracGe(acc.maxSim, simTh) /\ acc.maxCluster # Nil
    IN  [d |-> IF hit
               THEN [d EXCEPT !.idToCluster = acc.cache,
                              !.heap[acc.maxCluster].size = @ + 1]
               ELSE [d EXCEPT !.idToCluster = acc.cache],
         panic |-> acc.panic,
         cluster |-> IF hit THEN acc.maxCluster ELSE Nil]

\* Drain.fastMatch: the best live candidate of clusterIDs, or nil below simTh
fastMatch(d, clusterIDs, tokens, simTh, includeParams) ==
    LET acc == fastMatchLoop(d, clusterIDs, tokens, includeParams, 1,
                   [cache |-> d.idToCluster, maxSim |-> Frac(-1, 1),
                    maxParamCount |-> -1, maxCluster |-> Nil, panic |-> FALSE])
    IN  [d |-> [d EXCEPT !.idToCluster = acc.cache],
         panic |-> acc.panic,
         cluster |-> IF ~acc.panic /\ FracGe(acc.maxSim, simTh)
                     THEN acc.maxCluster ELSE Nil]

\* the descent without the fall-back to the wildcard child
RECURSIVE treeSearchLoopExact(_, _, _, _, _)
treeSearchLoopExact(d, tokens, i, curNode, curNodeDepth) ==
    IF i > Len(tokens) THEN curNode
    ELSE IF curNodeDepth >= d.config.maxNodeDepth THEN curNode
    ELSE IF curNodeDepth = Len(tokens) THEN curNode
    ELSE IF tokens[i] \in keyToChildNode(d.rootNode, curNode)
         THEN treeSearchLoopExact(d, tokens, i + 1, Child(curNode, tokens[i]),
                                  curNodeDepth + 1)
         ELSE NilNode

\* Drain.treeSearch, the descent: the leaf of tokens, or NilNode
RECURSIVE treeSearchLoop(_, _, _, _, _)
treeSearchLoop(d, tokens, i, curNode, curNodeDepth) ==
    IF i > Len(tokens) THEN curNode
    ELSE IF curNodeDepth >= d.config.maxNodeDepth THEN curNode
    ELSE IF curNodeDepth = Len(tokens) THEN curNode
    ELSE LET children == keyToChildNode(d.rootNode, curNode)
         IN  IF tokens[i] \in children
             THEN treeSearchLoop(d, tokens, i + 1, Child(curNode, tokens[i]),
                                 curNodeDepth + 1)
             ELSE IF d.config.ParamString \in children
             THEN treeSearchLoop(d, tokens, i + 1, Child(curNode, d.config.ParamString),
                                 curNodeDepth + 1)
             ELSE NilNode

\* Drain.treeSearch
treeSearch(d, tokens, simTh, includeParams) ==
    LET tokenCount == Len(tokens)
        firstNode == <<Itoa(tokenCount)>>
    IN  IF firstNode \notin DOMAIN d.rootNode
        THEN [d |-> d, panic |-> FALSE, cluster |-> Nil]
        ELSE IF tokenCount = 0
        THEN IF d.rootNode[firstNode] = <<>>
             THEN [d |-> d, panic |-> TRUE, cluster |-> Nil]
             ELSE LET got == Get(d.idToCluster, d.rootNode[firstNode][1])
                  IN  [d |-> [d EXCEPT !.idToCluster = got.cache],
                       panic |-> FALSE, cluster |-> got.cluster]
        ELSE LET leaf == treeSearchLoop(d, tokens, 1, firstNode, 1)
             IN  IF leaf = NilNode
                 THEN [d |-> d, panic |-> FALSE, cluster |-> Nil]
                 ELSE fastMatch(d, d.rootNode[leaf], tokens, simTh, includeParams)

\* Drain.addSeqToPrefixTree, the stale-id clean-up of a leaf: every id is
\* looked up with Get, and kept when the cache still holds it.
RECURSIVE pruneLoop(_, _, _, _)
pruneLoop(cache, clusterIDs, i, newClusterIDs) ==
    IF i > Len(clusterIDs) THEN [cache |-> cache, clusterIDs |-> newClusterIDs]
    ELSE LET got == Get(cache, clusterIDs[i])
         IN  pruneLoop(got.cache, clusterIDs, i + 1,
                       IF got.cluster # Nil
                       THEN Append(newClusterIDs, clusterIDs[i]) ELSE newClusterIDs)

\* nextChild that gives every token without a digit its own child.
nextChildUncapped(config, children, token) ==
    IF token \in children THEN [key |-> token, create |-> FALSE]
    ELSE IF ~hasNumbers(token) THEN [key |-> token, create |-> TRUE]
    ELSE IF config.ParamString \notin children
         THEN [key |-> config.ParamString, create |-> TRUE]
         ELSE [key |-> config.ParamString, create |-> FALSE]

\* Drain.addSeqToPrefixTree, the choice of the child to descend into from a
\* node with the given child keys: the edge key, and whether the child is new.
nextChild(config, children, token) ==
    IF token \in children THEN [key |-> token, create |-> FALSE]
    ELSE IF ~hasNumbers(token)
    THEN IF config.ParamString \in children
         THEN IF Cardinality(children) < config.MaxChildren
              THEN [key |-> token, create |-> TRUE]
              ELSE [key |-> config.ParamString, create |-> FALSE]
         ELSE IF Cardinality(children) + 1 < config.MaxChildren
              THEN [key |-> token, create |-> TRUE]
              ELSE IF Cardinality(children) + 1 = config.MaxChildren
              THEN [key |-> config.ParamString, create |-> TRUE]
              ELSE [key |-> config.ParamString, create |-> FALSE]
    ELSE IF config.ParamString \notin children
         THEN [key |-> config.ParamString, create |-> TRUE]
         ELSE [key |-> config.ParamString, create |-> FALSE]

\* addSeqLoop that stores the cluster one node below the maximum depth.
RECURSIVE addSeqLoopPastDepth(_, _, _, _, _, _)
addSeqLoopPastDepth(d, clusterID, tokens, i, curNode, currentDepth) ==
    IF i > Len(tokens) THEN [d |-> d, panic |-> FALSE]
    ELSE IF curNode = NilNode THEN [d |-> d, panic |-> TRUE]
    ELSE IF currentDepth > d.config.maxNodeDepth \/ currentDepth >= Len(tokens)
    THEN LET pruned == pruneLoop(d.idToCluster, d.rootNode[curNode], 1, <<>>)
         IN  [d |-> [d EXCEPT !.idToCluster = pruned.cache,
                              !.rootNode[curNode] = Append(pruned.clusterIDs, clusterID)],
              panic |-> FALSE]
    ELSE LET children == keyToChildNode(d.rootNode, curNode)
             next == nextChild(d.config, children, tokens[i])
             node == Child(curNode, next.key)
         IN  IF next.create
             THEN addSeqLoopPastDepth(
                      [d EXCEPT !.rootNode = (node :> <<>>) @@ d.rootNode],
                      clusterID, tokens, i + 1, node, currentDepth + 1)
             ELSE addSeqLoopPastDepth(d, clusterID, tokens, i + 1,
                      IF next.key \in children THEN node ELSE NilNode,
                      currentDepth + 1)

\* Drain.addSeqToPrefixTree, the loop over the template's tokens
RECURSIVE addSeqLoop(_, _, _, _, _, _)
addSeqLoop(d, clusterID, tokens, i, curNode, currentDepth) ==
    IF i > Len(tokens) THEN [d |-> d, panic |-> FALSE]
    ELSE IF curNode = NilNode THEN [d |-> d, panic |-> TRUE]
    ELSE IF currentDepth >= d.config.maxNodeDepth \/ currentDepth >= Len(tokens)
    THEN LET pruned == pruneLoop(d.idToCluster, d.rootNode[curNode], 1, <<>>)
         IN  [d |-> [d EXCEPT !.idToCluster = pruned.cache,
                              !.rootNode[curNode] = Append(pruned.clusterIDs, clusterID)],
              panic |-> FALSE]
    ELSE LET children == keyToChildNode(d.rootNode, curNode)
             next == nextChild(d.config, children, tokens[i])
             node == Child(curNode, next.key)
         IN  IF next.create
             THEN addSeqLoop([d EXCEPT !.rootNode = (node :> <<>>) @@ d.rootNode],
                             clusterID, tokens, i + 1, node, currentDepth + 1)
             ELSE addSeqLoop(d, clusterID, tokens, i + 1,
                             IF next.key \in children THEN node ELSE NilNode,
                             currentDepth + 1)

\* Drain.addSeqToPrefixTree
addSeqToPrefixTree(d, clusterID) ==
    LET tokens == d.heap[clusterID].logTemplateTokens
        tokenCount == Len(tokens)
        firstLayerNode == <<Itoa(tokenCount)>>
        d1 == IF firstLayerNode \in DOMAIN d.rootNode THEN d
              ELSE [d EXCEPT !.rootNode = (firstLayerNode :> <<>>) @@ d.rootNode]
    IN  IF tokenCount = 0
        THEN [d |-> [d1 EXCEPT !.rootNode[firstLayerNode] =
                                   Append(d1.rootNode[firstLayerNode], clusterID)],
              panic |-> FALSE]
        ELSE addSeqLoop(d1, clusterID, tokens, 1, firstLayerNode, 1)

\* ------------------------------------------------------------ the miner

\* New with the depth of the leaves one too large
NewDeeper(config) ==
    [config |-> [config EXCEPT !.maxNodeDepth = config.LogClusterDepth - 1],
     rootNode |-> createNode,
     idToCluster |-> createLogClusterCache(config.MaxClusters),
     clustersCounter |-> 0,
     heap |-> <<>>]

\* New: the miner of a configuration (LogClusterDepth < 3 panics: no miner)
New(config) ==
    [config |-> [config EXCEPT !.maxNodeDepth = config.LogClusterDepth - 2],
     rootNode |-> createNode,
     idToCluster |-> createLogClusterCache(config.MaxClusters),
     clustersCounter |-> 0,
     heap |-> <<>>]

\* an id taken from the number of live clusters
nextClusterIDByCount(d) == Len(d.idToCluster.keys) + 1

\* Drain.Log, the id of a new cluster
nextClusterID(d) == d.clustersCounter + 1

\* Drain.Log, a new cluster
newCluster(clusterID, contentTokens) ==
    [logTemplateTokens |-> contentTokens, id |-> clusterID, size |-> 1]

\* the update of a matched cluster without the size increment
mergeClusterUncounted(cluster, newTemplateTokens) ==
    [cluster EXCEPT !.logTemplateTokens = newTemplateTokens]

\* Drain.Log, the update of a matched cluster
mergeCluster(cluster, newTemplateTokens) ==
    [cluster EXCEPT !.logTemplateTokens = newTemplateTokens, !.size = cluster.size + 1]

\* Drain.Log, no cluster matched: a new cluster, stored and spliced into the tree
logCreated(added, clusterID) ==
    [d |-> added.d, panic |-> added.panic,
     cluster |-> IF added.panic THEN Nil ELSE clusterID, isNew |-> ~added.panic]

logCreate(d, contentTokens, clusterID) ==
    logCreated(
        addSeqToPrefixTree(
            [d EXCEPT !.clustersCounter = clusterID,
                      !.heap = (clusterID :> newCluster(clusterID, contentTokens)) @@ d.heap,
                      !.idToCluster = Set(d.idToCluster, clusterID)],
            clusterID),
        clusterID)

\* Drain.Log, a cluster matched: its template merged, its size and recency updated
logMerge(d, matchCluster, merged) ==
    IF merged.panic
    THEN [d |-> d, panic |-> TRUE, cluster |-> Nil, isNew |-> FALSE]
    ELSE [d |-> [d EXCEPT !.heap[matchCluster.id] =
                              mergeCluster(matchCluster, merged.retVal),
                          !.idToCluster = Get(d.idToCluster, matchCluster.id).cache],
          panic |-> FALSE, cluster |-> matchCluster.id, isNew |-> FALSE]

\* Drain.Log, after the tree search
logFound(contentTokens, found, clusterID) ==
    IF found.panic
    THEN [d |-> found.d, panic |-> TRUE, cluster |-> Nil, isNew |-> FALSE]
    ELSE IF found.cluster = Nil
    THEN logCreate(found.d, contentTokens, clusterID)
    ELSE logMerge(found.d, found.d.heap[found.cluster],
                  createTemplate(found.d.config, contentTokens,
                                 found.d.heap[found.cluster].logTemplateTokens))

\* Drain.Log (the Train of the README): the miner after the call, the cluster
\* returned, whether the call created it, and whether the call panicked
logSearch(d, contentTokens) ==
    logFound(contentTokens, treeSearch(d, contentTokens, d.config.SimTh, FALSE),
             nextClusterID(d))

Log(d, content) == logSearch(d, getContentAsTokens(d.config, content))

\* Match: the tree search of the line's tokens with includeParams
Match(d, content) ==
    treeSearch(d, getContentAsTokens(d.config, content), d.config.SimTh, TRUE)

\* Drain.Clusters
Clusters(d) == Values(d.idToCluster)

\* ------------------------------------------------------- configurations

\* DefaultConfig: ParamString "<*>" and SimTh 0.4
DefaultParamString == <<"<", "*", ">">>

DefaultSimTh == Frac(2, 5)

Cfg(depth, simTh, maxChildren, maxClusters) ==
    [maxNodeDepth |-> 0, LogClusterDepth |-> depth, SimTh |-> simTh,
     MaxChildren |-> maxChildren, ExtraDelimiters |-> << <<"=">> >>,
     MaxClusters |-> maxClusters, ParamString |-> DefaultParamString]

\* The configurations a run starts from: tree depths 3 to 5, a child cap of 1
\* or 2, an unbounded cache and caches of 1 or 2 clusters, the default
\* threshold and the threshold 0 that merges every candidate.
Configs ==
    {Cfg(4, DefaultSimTh, 2, 0), Cfg(4, DefaultSimTh, 2, 2), Cfg(4, DefaultSimTh, 1, 1),
     Cfg(3, DefaultSimTh, 2, 2), Cfg(3, Frac(0, 1), 2, 0), Cfg(5, DefaultSimTh, 2, 1)}

\* The lines a run trains and matches: "a x", "a y", "b=x", "7 x", " a" and
\* "a  x" (whose two spaces give an empty token).
Contents ==
    {<<"a", " ", "x">>, <<"a", " ", "y">>, <<"b", "=", "x">>,
     <<"7", " ", "x">>, <<" ", "a">>, <<"a", " ", " ", "x">>}

\* ------------------------------------------------------------ the state

VARIABLES
    d,           \* the miner: config, rootNode, idToCluster, clustersCounter, heap
    panicked,    \* a call has panicked
    call,        \* the last call: its operation, line and result, and the call before
    created,     \* history: the clusters created, in order, with the creating line
    trained,     \* history: per cluster id, the Train calls that returned it
    evictedIDs,  \* history: the ids the cache has evicted
    lastUse,     \* history: per cluster id, the last Train call that created or matched it
    nTrain,      \* the Train calls so far
    nMatch       \* the Match calls so far

vars == <<d, panicked, call, created, trained, evictedIDs, lastUse, nTrain, nMatch>>

Live(dd) == {dd.idToCluster.keys[i] : i \in 1..Len(dd.idToCluster.keys)}

\* the state after construction from one of the given configurations
InitOf(configs) ==
    /\ \E config \in configs : config.LogClusterDepth >= 3 /\ d = New(config)
    /\ panicked = FALSE
    /\ call = [op |-> "new", content |-> <<>>, cluster |-> Nil, isNew |-> FALSE,
               evicted |-> {}, prevOp |-> "none", prevContent |-> <<>>]
    /\ created = <<>>
    /\ trained = <<>>
    /\ evictedIDs = {}
    /\ lastUse = <<>>
    /\ nTrain = 0
    /\ nMatch = 0

Init == InitOf(Configs)

\* the state after a Train call of a line that returned r
Trained(content, r, evicted) ==
    /\ d' = r.d
    /\ panicked' = r.panic
    /\ call' = [op |-> "train", content |-> content, cluster |-> r.cluster,
                isNew |-> r.isNew, evicted |-> evicted,
                prevOp |-> call.op, prevContent |-> call.content]
    /\ created' = IF r.isNew
                  THEN Append(created, [id |-> r.cluster, content |-> content])
                  ELSE created
    /\ trained' = IF r.cluster = Nil THEN trained
                  ELSE IF r.isNew THEN (r.cluster :> 1) @@ trained
                  ELSE [trained EXCEPT ![r.cluster] = @ + 1]
    /\ evictedIDs' = evictedIDs \cup evicted
    /\ lastUse' = IF r.cluster = Nil THEN lastUse
                  ELSE (r.cluster :> nTrain + 1) @@ lastUse
    /\ nTrain' = nTrain + 1
    /\ UNCHANGED nMatch

Evicted(before, after) == Live(before) \ Live(after)

TrainReturns(content, r) == Trained(content, r, Evicted(d, r.d))

\* a Train call (Drain.Log) of a line
Train(content) ==
    /\ ~panicked
    /\ nTrain < MaxTrains
    /\ TrainReturns(content, Log(d, content))

\* the state after a Match call of a line that returned r
Matched(content, r, evicted) ==
    /\ d' = r.d
    /\ panicked' = r.panic
    /\ call' = [op |-> "match", content |-> content, cluster |-> r.cluster,
                isNew |-> FALSE, evicted |-> evicted,
                prevOp |-> call.op, prevContent |-> call.content]
    /\ evictedIDs' = evictedIDs \cup evicted
    /\ nMatch' = nMatch + 1
    /\ UNCHANGED <<created, trained, lastUse, nTrain>>

MatchReturns(content, r) == Matched(content, r, Evicted(d, r.d))

\* a Match call of a line
MatchLine(content) ==
    /\ ~panicked
    /\ nMatch < MaxMatches
    /\ MatchReturns(content, Match(d, content))

Next ==
    \/ \E content \in Contents : Train(content)
    \/ \E content \in Contents : MatchLine(content)

Spec == Init /\ [][Next]_vars

\* runs of Train calls only
NextTrain == \E content \in Contents : Train(content)

SpecTrain == Init /\ [][NextTrain]_vars

\* --------------------------------------------------------- the scenarios

\* LogCluster.getTemplate: strings.Join(tokens, " ")
RECURSIVE getTemplate(_)
getTemplate(tokens) ==
    IF tokens = <<>> THEN <<>>
    ELSE IF Len(tokens) = 1 THEN tokens[1]
    ELSE tokens[1] \o <<Space>> \o getTemplate(Tail(tokens))

\* DefaultConfig
DefaultConfig ==
    [maxNodeDepth |-> 0, LogClusterDepth |-> 4, SimTh |-> DefaultSimTh,
     MaxChildren |-> 100, ExtraDelimiters |-> <<>>, MaxClusters |-> 0,
     ParamString |-> DefaultParamString]

\* The configuration of the child-cap scenario: the default but MaxChildren = 3.
FanOutConfig == [DefaultConfig EXCEPT !.MaxChildren = 3]

\* The lines the example trains, in order.
ExampleLines ==
    <<<<"c", "o", "n", "n", "e", "c", "t", "e", "d", " ", "t", "o", " ", "1", "0", ".",
       "0", ".", "0", ".", "1">>,
     <<"c", "o", "n", "n", "e", "c", "t", "e", "d", " ", "t", "o", " ", "1", "0", ".",
       "0", ".", "0", ".", "2">>,
     <<"c", "o", "n", "n", "e", "c", "t", "e", "d", " ", "t", "o", " ", "1", "0", ".",
       "0", ".", "0", ".", "3">>,
     <<"H", "e", "x", " ", "n", "u", "m", "b", "e", "r", " ", "0", "x", "D", "E", "A",
       "D", "B", "E", "A", "F">>,
     <<"H", "e", "x", " ", "n", "u", "m", "b", "e", "r", " ", "0", "x", "1", "0", "0",
       "0", "0">>,
     <<"u", "s", "e", "r", " ", "d", "a", "v", "i", "d", "o", "h", " ", "l", "o", "g",
       "g", "e", "d", " ", "i", "n">>,
     <<"u", "s", "e", "r", " ", "e", "r", "a", "n", "r", " ", "l", "o", "g", "g", "e",
       "d", " ", "i", "n">> >>

\* The line the example matches: "user faceair logged in".
ExampleQuery ==
    <<"u", "s", "e", "r", " ", "f", "a", "c", "e", "a", "i", "r", " ", "l", "o", "g",
      "g", "e", "d", " ", "i", "n">>

\* A line like none trained: "totally unrelated phrase here".
UnrelatedQuery ==
    <<"t", "o", "t", "a", "l", "l", "y", " ", "u", "n", "r", "e", "l", "a", "t", "e",
      "d", " ", "p", "h", "r", "a", "s", "e", " ", "h", "e", "r", "e">>

\* The lines of the child-cap scenario: "x a end", "x b end", "x c end", "x d end".
FanOutLines ==
    <<<<"x", " ", "a", " ", "e", "n", "d">>,
     <<"x", " ", "b", " ", "e", "n", "d">>,
     <<"x", " ", "c", " ", "e", "n", "d">>,
     <<"x", " ", "d", " ", "e", "n", "d">> >>

\* The lines a scenario trains, by its configuration.
ScriptOf(config) == IF config.MaxChildren = 3 THEN FanOutLines ELSE ExampleLines

\* The lines a scenario may match at any point.
QueryLines ==
    {ExampleQuery, UnrelatedQuery}
        \cup {ExampleLines[i] : i \in 1..Len(ExampleLines)}
        \cup {FanOutLines[i] : i \in 1..Len(FanOutLines)}

InitScenario == InitOf({DefaultConfig, FanOutConfig})

\* the Train call of the scenario's next line
TrainScript ==
    /\ ~panicked
    /\ nTrain < Len(ScriptOf(d.config))
    /\ TrainReturns(ScriptOf(d.config)[nTrain + 1],
                    Log(d, ScriptOf(d.config)[nTrain + 1]))

\* a Match call of a query line
MatchQuery ==
    \E content \in QueryLines :
        /\ ~panicked
        /\ nMatch < MaxMatches
        /\ MatchReturns(content, Match(d, content))

NextScenario == TrainScript \/ MatchQuery

SpecScenario == InitScenario /\ [][NextScenario]_vars

\* Configurations New accepts whose MaxChildren leaves no room for any child.
ChildlessConfigs ==
    {Cfg(4, DefaultSimTh, 0, 0), Cfg(3, DefaultSimTh, 0, 2), Cfg(5, DefaultSimTh, 0, 2)}

InitChildless == InitOf(ChildlessConfigs)

SpecChildless == InitChildless /\ [][Next]_vars

\* ----------------------------------------------------------- properties

Template(id) == d.heap[id].logTemplateTokens

Tokens(content) == getContentAsTokens(d.config, content)

HasParam(tokens) == \E i \in 1..Len(tokens) : tokens[i] = d.config.ParamString

RECURSIVE SumOver(_, _)
SumOver(S, f) ==
    IF S = {} THEN 0
    ELSE LET x == CHOOSE y \in S : TRUE IN f[x] + SumOver(S \ {x}, f)

\* C1: the k-th cluster created by Train has id k: ids start at 1, grow by one
\* with every creation and are never assigned twice, evictions or not.
IdsInCreationOrder ==
    /\ \A k \in 1..Len(created) : created[k].id = k
    /\ d.clustersCounter = Len(created)

\* C1 witness: a third cluster was created after cluster 1 had been evicted.
IdsInCreationOrderWitness ==
    /\ call.op = "train" /\ call.isNew /\ call.cluster = 3
    /\ 1 \in evictedIDs
    /\ Len(created) = 3

\* C2: every cluster's template is as long as the token sequence of the line
\* whose Train call created it.
TemplateLengthFixed ==
    \A k \in 1..Len(created) :
        Len(Template(created[k].id)) = Len(Tokens(created[k].content))

\* C2 witness: a cluster whose template was merged away from its creating line.
TemplateLengthFixedWitness ==
    \E k \in 1..Len(created) :
        /\ d.heap[created[k].id].size >= 2
        /\ Template(created[k].id) # Tokens(created[k].content)
        /\ Len(Template(created[k].id)) = 2

\* C3: a step changes a template position only from a token that is not the
\* wildcard to the wildcard; a wildcard position stays the wildcard.
MonotoneGeneralization ==
    [][\A id \in DOMAIN d.heap :
          /\ id \in DOMAIN d'.heap
          /\ Len(d'.heap[id].logTemplateTokens) = Len(d.heap[id].logTemplateTokens)
          /\ \A i \in 1..Len(d.heap[id].logTemplateTokens) :
                d'.heap[id].logTemplateTokens[i] # d.heap[id].logTemplateTokens[i]
                    => /\ d.heap[id].logTemplateTokens[i] # d.config.ParamString
                       /\ d'.heap[id].logTemplateTokens[i] = d.config.ParamString]_vars

\* C3 witness: the third line of a cluster repeats its first line, and the
\* position the second line generalized is still the wildcard.
MonotoneGeneralizationWitness ==
    /\ call.op = "train" /\ ~call.isNew /\ call.cluster # Nil
    /\ d.heap[call.cluster].size = 3
    /\ Tokens(call.content) = Tokens(created[call.cluster].content)
    /\ HasParam(Template(call.cluster))

\* C4: the sizes of the live clusters add up to the number of Train calls that
\* returned a cluster not evicted since; with MaxClusters = 0, to the number of
\* Train calls.
SizeAccounting ==
    LET size == [id \in DOMAIN d.heap |-> d.heap[id].size]
        sum == SumOver({Clusters(d)[i] : i \in 1..Len(Clusters(d))}, size)
    IN  /\ sum = SumOver(DOMAIN trained \ evictedIDs, trained)
        /\ d.config.MaxClusters = 0 => sum = nTrain

\* C4 witness: after three Train calls and an eviction, a live cluster of size 2.
SizeAccountingWitness ==
    /\ nTrain = 3
    /\ evictedIDs # {}
    /\ \E id \in Live(d) : d.heap[id].size = 2

\* C5: a Match call changes no cluster (id, template, size), not the set of live
\* clusters, not the id counter and not the prefix tree.
MatchDoesNotMutate ==
    [][nMatch' # nMatch =>
          /\ d'.heap = d.heap
          /\ Live(d') = Live(d)
          /\ d'.clustersCounter = d.clustersCounter
          /\ d'.rootNode = d.rootNode]_vars

\* C5 witness: a Match call returned a cluster of two lines.
MatchDoesNotMutateWitness ==
    /\ call.op = "match" /\ call.cluster # Nil
    /\ d.heap[call.cluster].size = 2

\* C6: a Match of the line a Train call has just returned a cluster for returns
\* a cluster whose template is as long as the line and equals the line's token
\* wherever it is not the wildcard.
RoundTripClassify ==
    (/\ call.op = "match" /\ call.prevOp = "train"
     /\ call.prevContent = call.content /\ ~panicked)
        => /\ call.cluster # Nil
           /\ Len(Template(call.cluster)) = Len(Tokens(call.content))
           /\ \A i \in 1..Len(Template(call.cluster)) :
                 \/ Template(call.cluster)[i] = d.config.ParamString
                 \/ Template(call.cluster)[i] = Tokens(call.content)[i]

\* C6 witness: such a Match returned a cluster with a generalized template.
RoundTripClassifyWitness ==
    /\ call.op = "match" /\ call.prevOp = "train"
    /\ call.prevContent = call.content
    /\ call.cluster # Nil
    /\ HasParam(Template(call.cluster))

\* C7: with MaxClusters > 0 at most MaxClusters clusters are live; with
\* MaxClusters = 0 no cluster is evicted.
CapacityBound ==
    /\ d.config.MaxClusters > 0 => Len(Clusters(d)) <= d.config.MaxClusters
    /\ d.config.MaxClusters = 0 => evictedIDs = {} /\ Live(d) = 1..d.clustersCounter

\* C7 witness: a full cache of two clusters after an eviction.
CapacityBoundWitness ==
    /\ d.config.MaxClusters = 2
    /\ Len(Clusters(d)) = 2
    /\ evictedIDs # {}

\* The live cluster whose last creation or successful Train match is oldest.
LeastRecentlyUsed ==
    CHOOSE id \in Live(d) : \A other \in Live(d) : lastUse[id] <= lastUse[other]

\* C8: in a run of Train calls, a Train call that creates a cluster while
\* MaxClusters > 0 clusters are live evicts exactly one cluster, the live one
\* whose last creation or successful match is oldest.
EvictsLeastRecentlyUsed ==
    [][(/\ nTrain' # nTrain /\ call'.isNew
        /\ d.config.MaxClusters > 0
        /\ Len(Clusters(d)) = d.config.MaxClusters)
           => call'.evicted = {LeastRecentlyUsed}]_vars

\* The leaf the tree search of a line ends in, or NilNode.
LeafOf(content) ==
    IF <<Itoa(Len(Tokens(content)))>> \in DOMAIN d.rootNode
    THEN treeSearchLoop(d, Tokens(content), 1, <<Itoa(Len(Tokens(content)))>>, 1)
    ELSE NilNode

\* C9: an evicted id is never live again, no later call returns it or changes
\* its cluster, and no call panics, stale ids in the leaves or not.
NoResurrection ==
    [][/\ ~panicked'
       /\ \A id \in evictedIDs' : id \notin Live(d') /\ call'.cluster # id
       /\ \A id \in evictedIDs : d'.heap[id] = d.heap[id]]_vars

\* C9 witness: the last call ended in a leaf that lists an evicted id.
NoResurrectionWitness ==
    /\ call.op \in {"train", "match"}
    /\ LeafOf(call.content) # NilNode
    /\ \E i \in 1..Len(d.rootNode[LeafOf(call.content)]) :
          d.rootNode[LeafOf(call.content)][i] \in evictedIDs

\* C10 as claimed: every node of the tree, the root included, has at most
\* MaxChildren children.
FanOutBoundEveryNode ==
    \A node \in DOMAIN d.rootNode :
        Cardinality(keyToChildNode(d.rootNode, node)) <= d.config.MaxChildren

\* C10 amended: every node of the tree but the root has at most MaxChildren
\* children (MaxChildren >= 1).
FanOutBoundBelowRoot ==
    \A node \in DOMAIN d.rootNode :
        node # <<>> =>
            Cardinality(keyToChildNode(d.rootNode, node)) <= d.config.MaxChildren

\* C10 witness: a node below the root has MaxChildren = 2 children, and three
\* lines with different first tokens went through it.
FanOutBoundBelowRootWitness ==
    /\ d.config.MaxChildren = 2
    /\ \E node \in DOMAIN d.rootNode :
          /\ node # <<>>
          /\ Cardinality(keyToChildNode(d.rootNode, node)) = 2
          /\ \E k1, k2, k3 \in 1..Len(created) :
                /\ Tokens(created[k1].content)[1] # Tokens(created[k2].content)[1]
                /\ Tokens(created[k1].content)[1] # Tokens(created[k3].content)[1]
                /\ Tokens(created[k2].content)[1] # Tokens(created[k3].content)[1]
                /\ \A k \in {k1, k2, k3} :
                      Itoa(Len(Tokens(created[k].content))) = node[1]

\* C11: every node that holds a cluster id is at most LogClusterDepth - 2
\* edges away from the root.
DepthBound ==
    \A node \in DOMAIN d.rootNode :
        d.rootNode[node] # <<>> => Len(node) <= d.config.LogClusterDepth - 2

\* C11 witness: a node three edges from the root holds a cluster id, in a tree
\* of LogClusterDepth 5.
DepthBoundWitness ==
    /\ d.config.LogClusterDepth = 5
    /\ \E node \in DOMAIN d.rootNode : d.rootNode[node] # <<>> /\ Len(node) = 3

\* the text of a rendered template
ConnectedTo == <<"c", "o", "n", "n", "e", "c", "t", "e", "d", " ", "t", "o", " ", "<", "*", ">">>
HexNumber == <<"H", "e", "x", " ", "n", "u", "m", "b", "e", "r", " ", "<", "*", ">">>
UserLoggedIn == <<"u", "s", "e", "r", " ", "<", "*", ">", " ", "l", "o", "g", "g", "e", "d", " ", "i", "n">>

\* the example's run, and the child-cap scenario's
InExample == d.config = New(DefaultConfig).config
InFanOut == d.config = New(FanOutConfig).config

\* the cluster as the example prints it: id, size, template
Printed(id) ==
    [id |-> d.heap[id].id, size |-> d.heap[id].size,
     template |-> getTemplate(d.heap[id].logTemplateTokens)]

\* C12: in the documented example, after the seven lines are trained in order
\* under the default configuration, the clusters are exactly id 1 of size 3
\* "connected to <*>", id 2 of size 2 "Hex number <*>" and id 3 of size 2
\* "user <*> logged in"; a Match of "user faceair logged in" then returns
\* cluster 3, whose size is still 2.
DocumentedExample ==
    InExample /\ nTrain = Len(ExampleLines) =>
        /\ ~panicked
        /\ Len(Clusters(d)) = 3
        /\ {Clusters(d)[i] : i \in 1..3} = {1, 2, 3}
        /\ nMatch = 0 => Clusters(d) = <<1, 2, 3>>
        /\ Printed(1) = [id |-> 1, size |-> 3, template |-> ConnectedTo]
        /\ Printed(2) = [id |-> 2, size |-> 2, template |-> HexNumber]
        /\ Printed(3) = [id |-> 3, size |-> 2, template |-> UserLoggedIn]
        /\ call.op = "match" /\ call.content = ExampleQuery =>
               call.cluster = 3 /\ d.heap[3].size = 2

\* C12 witness: the example has trained its seven lines and then matched
\* "user faceair logged in".
DocumentedExampleWitness ==
    /\ InExample
    /\ nTrain = Len(ExampleLines)
    /\ call.op = "match"
    /\ call.content = ExampleQuery
    /\ call.cluster = 3

\* the node reached from the root by the token-count edge "3" and the edge "x"
NodeX == <<Itoa(3), <<"x">>>>

\* C13 as stated: in the child-cap scenario (MaxChildren 3, LogClusterDepth 4),
\* after "x a end", "x b end", "x c end" the node reached by the edges "3" and
\* "x" has a wildcard child, and the cluster "x d end" yields next has the
\* wildcard at position 1.
FanOutWildcardChild ==
    InFanOut /\ nTrain >= 3 =>
        /\ d.config.ParamString \in keyToChildNode(d.rootNode, NodeX)
        /\ nTrain = 4 /\ call.op = "train" =>
               Template(call.cluster)[2] = d.config.ParamString

\* C13: in the child-cap scenario the node reached by the edges "3" and "x" is
\* at the maximum depth: it is a leaf without children that holds cluster 1
\* alone; every line after the first joins cluster 1, so "x d end" yields
\* cluster 1, of size 4, whose template has the wildcard at position 1.
FanOutLeaf ==
    InFanOut /\ nTrain >= 1 =>
        /\ ~panicked
        /\ NodeX \in DOMAIN d.rootNode
        /\ keyToChildNode(d.rootNode, NodeX) = {}
        /\ d.rootNode[NodeX] = <<1>>
        /\ d.heap[1].size = nTrain
        /\ nTrain >= 2 =>
               Template(1) = <<<<"x">>, d.config.ParamString, <<"e", "n", "d">>>>
        /\ call.op = "train" => call.cluster = 1 /\ call.isNew = (nTrain = 1)

\* C13 witness: the child-cap scenario has just trained "x d end".
FanOutLeafWitness ==
    /\ InFanOut
    /\ nTrain = 4
    /\ call.op = "train"
    /\ call.content = FanOutLines[4]
    /\ Template(call.cluster)[2] = d.config.ParamString

\* C14 as stated: every node other than the root whose child count has reached
\* MaxChildren has a wildcard child, and an insertion that falls through to the
\* wildcard child finds it, whatever MaxChildren the constructor accepted.
WildcardReservation ==
    /\ ~panicked
    /\ \A node \in DOMAIN d.rootNode :
           /\ node # <<>>
           /\ Cardinality(keyToChildNode(d.rootNode, node)) >= d.config.MaxChildren
           => d.config.ParamString \in keyToChildNode(d.rootNode, node)

\* the keys of a cache, oldest first, restricted to the ids of S
RecencyAmong(cache, S) == SelectSeq(cache.keys, LAMBDA k : k \in S)

\* the live clusters a Train step leaves alone: live before and after, and
\* not the one the call returns
Bystanders == (Live(d) \cap Live(d')) \ {call'.cluster}

\* C15 as stated: a Train call leaves the relative recency order of the live
\* clusters other than the one it returns as it was, and the cluster it
\* returns is the most recently used one after the call.
ScoringKeepsRecency ==
    [][nTrain' # nTrain /\ ~panicked' =>
         /\ RecencyAmong(d'.idToCluster, Bystanders)
                = RecencyAmong(d.idToCluster, Bystanders)
         /\ call'.cluster # Nil /\ call'.cluster \in Live(d') =>
                d'.idToCluster.keys[Len(d'.idToCluster.keys)] = call'.cluster]_vars

\* the smaller of two numbers
Min(a, b) == IF a <= b THEN a ELSE b

\* the leaves and the live cluster ids they list
LiveAtLeaf ==
    {e \in (DOMAIN d.rootNode) \X Live(d) :
        \E i \in 1..Len(d.rootNode[e[1]]) : d.rootNode[e[1]][i] = e[2]}

\* the edges of a path after the token-count edge spell the template's first
\* positions: each is the template's token at its position or the wildcard
SpellsPrefix(node, template) ==
    /\ node[1] = Itoa(Len(template))
    /\ \A k \in 2..Len(node) :
           /\ k - 1 <= Len(template)
           /\ node[k] = template[k - 1] \/ node[k] = d.config.ParamString

\* C16 as stated: the path to the leaf of a live cluster with a template of n
\* tokens is the token-count edge followed by edges for the first
\* min(n, maxNodeDepth) template positions, each the template's token or the
\* wildcard.
TreePathFullPrefix ==
    \A e \in LiveAtLeaf :
        /\ Len(e[1]) = 1 + Min(Len(Template(e[2])), d.config.maxNodeDepth)
        /\ SpellsPrefix(e[1], Template(e[2]))

\* C16: the path to the leaf of a live cluster with a template of n tokens has
\* min(n, maxNodeDepth) edges in all: the token-count edge followed by edges
\* for the first min(n, maxNodeDepth) - 1 template positions, each the
\* template's token or the wildcard.
TreePathInvariant ==
    \A e \in LiveAtLeaf :
        /\ Len(e[1]) = Min(Len(Template(e[2])), d.config.maxNodeDepth)
        /\ SpellsPrefix(e[1], Template(e[2]))

\* C16 witness: a live cluster sits under a wildcard edge that stands for a
\* literal token of its template, and a live cluster has a template longer
\* than the maximum depth.
TreePathInvariantWitness ==
    /\ \E e \in LiveAtLeaf :
           /\ Len(e[1]) = 2
           /\ e[1][2] = d.config.ParamString
           /\ Template(e[2])[1] # d.config.ParamString
    /\ \E e \in LiveAtLeaf : Len(Template(e[2])) > d.config.maxNodeDepth

\* the leaf the tree search of a line's tokens ends at, or NilNode
SearchLeaf(tokens) ==
    IF <<Itoa(Len(tokens))>> \notin DOMAIN d.rootNode THEN NilNode
    ELSE treeSearchLoop(d, tokens, 1, <<Itoa(Len(tokens))>>, 1)

\* the live clusters listed in a leaf have as many tokens as the line
LeafAgrees(leaf, tokens) ==
    leaf # NilNode =>
        \A i \in 1..Len(d.rootNode[leaf]) :
            d.rootNode[leaf][i] \in Live(d) =>
                Len(Template(d.rootNode[leaf][i])) = Len(tokens)

\* the candidates a search of the line would score, and the cluster the last
\* call returned, have as many tokens as the line
LineAgrees(tokens) ==
    /\ LeafAgrees(SearchLeaf(tokens), tokens)
    /\ call.cluster # Nil => Len(Template(call.cluster)) = Len(tokens)

\* C17: no call aborts on a length mismatch (the one abort there is needs a
\* MaxChildren below 1 and is the missing child of C14): every live cluster
\* listed in a leaf under the first-layer child keyed n has a template of n
\* tokens, every live candidate the search of the last call's line scores has
\* as many tokens as the line, and the cluster a call returns has as many
\* tokens as its line.
LengthsAgree ==
    /\ panicked => d.config.MaxChildren < 1
    /\ \A e \in LiveAtLeaf : e[1][1] = Itoa(Len(Template(e[2])))
    /\ call.op # "new" => LineAgrees(Tokens(call.content))

\* C17 witness: live clusters of different token counts exist, and the last
\* Train call merged its line into a cluster.
LengthsAgreeWitness ==
    /\ \E e, f \in LiveAtLeaf : Len(Template(e[2])) # Len(Template(f[2]))
    /\ call.op = "train"
    /\ call.cluster # Nil
    /\ ~call.isNew
    /\ HasParam(Template(call.cluster))

\* the thresholds a leaf match is tried with
Thresholds == {Frac(0, 1), DefaultSimTh, Frac(1, 2), Frac(1, 1)}

\* the wildcard count of a template
ParamCount(template) ==
    Cardinality({i \in 1..Len(template) : template[i] = d.config.ParamString})

\* the positions whose template token is not the wildcard and is the line's
\* token, plus the wildcard count when includeParams is set
SimTokens(template, tokens, includeParams) ==
    Cardinality({i \in 1..Len(template) :
                    template[i] # d.config.ParamString /\ template[i] = tokens[i]})
        + (IF includeParams THEN ParamCount(template) ELSE 0)

\* the positions of a leaf's id list that hold a live cluster
Candidates(clusterIDs) == {i \in 1..Len(clusterIDs) : clusterIDs[i] \in Live(d)}

\* candidate i is at least as good as candidate j: more similar, or as
\* similar with more wildcards, or equal in both and not later in the list
\* (the templates of one leaf have one length, so the counts compare)
Beats(clusterIDs, tokens, includeParams, i, j) ==
    LET si == SimTokens(Template(clusterIDs[i]), tokens, includeParams)
        sj == SimTokens(Template(clusterIDs[j]), tokens, includeParams)
        pi == ParamCount(Template(clusterIDs[i]))
        pj == ParamCount(Template(clusterIDs[j]))
    IN  \/ si > sj
        \/ si = sj /\ pi > pj
        \/ si = sj /\ pi = pj /\ i <= j

\* the cluster the leaf match is to return
Selected(clusterIDs, tokens, simTh, includeParams) ==
    IF Candidates(clusterIDs) = {} THEN Nil
    ELSE LET best == CHOOSE i \in Candidates(clusterIDs) :
                         \A j \in Candidates(clusterIDs) :
                             Beats(clusterIDs, tokens, includeParams, i, j)
         IN  IF SimTokens(Template(clusterIDs[best]), tokens, includeParams) * simTh.den
                    >= simTh.num * Len(tokens)
             THEN clusterIDs[best] ELSE Nil

\* the leaves a line of the given tokens can be matched at, with their id lists
LeavesFor(tokens) ==
    {node \in DOMAIN d.rootNode :
        /\ Len(node) >= 1
        /\ node[1] = Itoa(Len(tokens))
        /\ d.rootNode[node] # <<>>}

\* fastMatch returns the selected cluster without a panic
MatchesSelected(r, selected) == ~r.panic /\ r.cluster = selected

\* C18: for every leaf, line, threshold and includeParams, fastMatch skips the
\* ids without a live cluster and returns the live candidate of the highest
\* similarity, ties broken by the higher wildcard count and then by the
\* earlier position in the leaf's list; it returns nil exactly when there is
\* no live candidate or the best similarity is below the threshold.
LeafMatchSelection ==
    \A content \in Contents : \A node \in LeavesFor(Tokens(content)) :
        \A simTh \in Thresholds : \A includeParams \in BOOLEAN :
            MatchesSelected(
                fastMatch(d, d.rootNode[node], Tokens(content), simTh, includeParams),
                Selected(d.rootNode[node], Tokens(content), simTh, includeParams))

\* C18 witness: a leaf lists two live candidates as similar to a line, the
\* later one with more wildcards, and fastMatch returns the later one.
LeafMatchSelectionWitness ==
    \E content \in Contents : \E node \in LeavesFor(Tokens(content)) :
        /\ \E i, j \in Candidates(d.rootNode[node]) :
               /\ i < j
               /\ SimTokens(Template(d.rootNode[node][i]), Tokens(content), FALSE)
                      = SimTokens(Template(d.rootNode[node][j]), Tokens(content), FALSE)
               /\ ParamCount(Template(d.rootNode[node][i]))
                      < ParamCount(Template(d.rootNode[node][j]))
               /\ fastMatch(d, d.rootNode[node], Tokens(content), d.config.SimTh,
                            FALSE).cluster = d.rootNode[node][j]

\* the line of the call a step makes, as tokens
LineTokens == getContentAsTokens(d.config, call'.content)

\* the cluster the step's call returns, after the call
Returned == d'.heap[call'.cluster]

\* C19 as stated: a Train call of any line in any reachable state returns a
\* cluster that is live after the call, whose template has the line's token
\* count and agrees with the line wherever it is not the wildcard, and whose
\* size is 1 if the call created it and one more than before otherwise; the
\* call changes no other cluster.
TrainPostcondition ==
    [][nTrain' # nTrain =>
         /\ ~panicked'
         /\ call'.cluster # Nil
         /\ call'.cluster \in Live(d')
         /\ \E i \in 1..Len(Clusters(d')) : Clusters(d')[i] = call'.cluster
         /\ Len(Returned.logTemplateTokens) = Len(LineTokens)
         /\ \A i \in 1..Len(LineTokens) :
                \/ Returned.logTemplateTokens[i] = d.config.ParamString
                \/ Returned.logTemplateTokens[i] = LineTokens[i]
         /\ IF call'.isNew
            THEN call'.cluster \notin DOMAIN d.heap /\ Returned.size = 1
            ELSE /\ call'.cluster \in DOMAIN d.heap
                 /\ Returned.size = d.heap[call'.cluster].size + 1
         /\ \A id \in DOMAIN d.heap :
                id # call'.cluster => d'.heap[id] = d.heap[id]]_vars

\* the step is a Train call of the line the Train call just before it
\* returned a cluster for
RepeatsTrain ==
    /\ nTrain' # nTrain
    /\ call.op = "train"
    /\ call.cluster # Nil
    /\ call'.content = call.content
    /\ ~HasParam(Tokens(call.content))

\* C20: a Train call of a line without a wildcard token, straight after a
\* Train call of the same line that returned cluster C, returns C again,
\* with its size one higher and its template as it was, and creates no cluster.
RepeatTrainStable ==
    [][RepeatsTrain =>
         /\ ~panicked'
         /\ call'.cluster = call.cluster
         /\ ~call'.isNew
         /\ d'.heap[call.cluster].size = d.heap[call.cluster].size + 1
         /\ d'.heap[call.cluster].logTemplateTokens
                = d.heap[call.cluster].logTemplateTokens
         /\ d'.clustersCounter = d.clustersCounter
         /\ Len(d'.heap) = Len(d.heap)
         /\ Live(d') = Live(d)]_vars

\* C20 witness: in a store at capacity, a line was trained twice in a row
\* into a cluster another line had created: the first of the two calls turned
\* a template position into the wildcard, the second returned the same cluster.
RepeatTrainStableWitness ==
    /\ call.op = "train"
    /\ call.prevOp = "train"
    /\ call.prevContent = call.content
    /\ nTrain = 3
    /\ Len(created) = 1
    /\ created[1].content # call.content
    /\ call.cluster = created[1].id
    /\ d.heap[call.cluster].size = 3
    /\ HasParam(Template(call.cluster))
    /\ Len(d.idToCluster.keys) = d.idToCluster.size

====
